---- MODULE Spec2Model ----
(***************************************************************************)
(* Model of Ethernet_SPIFFS_1.ino: an ESP32 access controller.  setup()    *)
(* brings up the PN532 reader, SPIFFS and the W5500 server; loop() serves  *)
(* one HTTP client at a time and polls the card reader; checkCardAccess()  *)
(* decides a scanned id against the record array fileRows.                 *)
(*                                                                         *)
(* An Arduino String is modelled as a sequence of one-character strings,   *)
(* indexed from 0 by the helpers below as the String class indexes it.     *)
(***************************************************************************)
EXTENDS Integers, Sequences, FiniteSets, TLC

-----------------------------------------------------------------------------
(* Bounds of the model *)

\* Size of the record array (200 in the sketch, scaled down).
MAX_ROWS == 2
\* Clients that can wait in the listen backlog.
MaxBacklog == 1
\* millis() is followed up to MaxTime, in steps of TimeStep; it does not
\* wrap within that range.
MaxTime == 3000
TimeStep == 1000
\* Length of the oversized request a client sends.
FillerLen == 600

-----------------------------------------------------------------------------
(* Program constants *)

clientTimeout == 1000
SetupDelay == 1000
PulseHold == 1000
\* Request buffer capacity the specification names (section 6).
RequestCapacity == 512

LOW == "LOW"
HIGH == "HIGH"

CR == "\r"
LF == "\n"
Pipe == "|"
Terminator == <<CR, LF, CR, LF>>

-----------------------------------------------------------------------------
(* Arduino String operations *)

\* String::indexOf(ch): index of the first ch, -1 when there is none.
indexOf(s, ch) ==
  IF \E k \in 1..Len(s) : s[k] = ch
    THEN (CHOOSE k \in 1..Len(s) : s[k] = ch /\ \A j \in 1..(k-1) : s[j] # ch) - 1
    ELSE -1

\* String::lastIndexOf(ch): index of the last ch, -1 when there is none.
lastIndexOf(s, ch) ==
  IF \E k \in 1..Len(s) : s[k] = ch
    THEN (CHOOSE k \in 1..Len(s) : s[k] = ch /\ \A j \in (k+1)..Len(s) : s[j] # ch) - 1
    ELSE -1

\* String::substring(from, to): characters from..to-1.
substring(s, from, to) == SubSeq(s, from + 1, to)

\* String::substring(from): characters from..end.
substringFrom(s, from) == SubSeq(s, from + 1, Len(s))

\* String::endsWith(suffix).
endsWith(s, suffix) ==
  /\ Len(s) >= Len(suffix)
  /\ SubSeq(s, Len(s) - Len(suffix) + 1, Len(s)) = suffix

-----------------------------------------------------------------------------
(* checkCardAccess *)

\* rowDecision with the flag test turned round: anything but "0" grants.
rowDecisionNotZero(row, cardId) ==
  IF Len(row) > 0 /\ indexOf(row, Pipe) # -1
       /\ substring(row, 0, indexOf(row, Pipe)) = cardId
    THEN IF substringFrom(row, lastIndexOf(row, Pipe) + 1) = <<"0">>
           THEN "false" ELSE "true"
    ELSE "next"

\* rowDecision taking the enabled field after the first '|' (indexOf for
\* lastIndexOf at line 168).
rowDecisionFirstPipe(row, cardId) ==
  IF Len(row) > 0 /\ indexOf(row, Pipe) # -1
       /\ substring(row, 0, indexOf(row, Pipe)) = cardId
    THEN IF substringFrom(row, indexOf(row, Pipe) + 1) = <<"1">>
           THEN "true" ELSE "false"
    ELSE "next"

\* The body of the for loop at row i: the decision when row i settles the
\* call, "next" when the loop goes on to row i+1.
rowDecision(row, cardId) ==
  IF Len(row) > 0
    THEN LET firstPipe == indexOf(row, Pipe) IN
         IF firstPipe # -1
           THEN LET id == substring(row, 0, firstPipe) IN
                IF id = cardId
                  THEN LET thirdPipe == lastIndexOf(row, Pipe) IN
                       IF thirdPipe # -1
                         THEN LET enable == substringFrom(row, thirdPipe + 1) IN
                              IF enable = <<"1">> THEN "true" ELSE "false"
                         ELSE "next"
                  ELSE "next"
           ELSE "next"
    ELSE "next"

\* scanRows granting when no row settles the call (true for false at line
\* 177).
RECURSIVE scanRowsGrantsUnknown(_, _, _)
scanRowsGrantsUnknown(rows, cardId, i) ==
  IF i < MAX_ROWS
    THEN LET d == rowDecision(rows[i], cardId) IN
         IF d = "next" THEN scanRowsGrantsUnknown(rows, cardId, i + 1)
         ELSE d = "true"
    ELSE TRUE

\* scanRows going on to the next row after a match that is not enabled (the
\* return of line 171 taken only for "1").
RECURSIVE scanRowsPastDisabled(_, _, _)
scanRowsPastDisabled(rows, cardId, i) ==
  IF i < MAX_ROWS
    THEN IF rowDecision(rows[i], cardId) = "true" THEN TRUE
         ELSE scanRowsPastDisabled(rows, cardId, i + 1)
    ELSE FALSE

RECURSIVE scanRows(_, _, _)
scanRows(rows, cardId, i) ==
  IF i < MAX_ROWS
    THEN LET d == rowDecision(rows[i], cardId) IN
         IF d = "next" THEN scanRows(rows, cardId, i + 1) ELSE d = "true"
    ELSE FALSE

checkCardAccess(rows, cardId) == scanRows(rows, cardId, 0)

-----------------------------------------------------------------------------
(* Record store: the array fileRows and the file /data.txt.  The bodies of  *)
(* readFile, writeData, toggleEnable, deleteRowById and eraseAllData are    *)
(* only declared in the sketch (lines 43-52); they follow section 4.1 of    *)
(* the specification.                                                       *)

Rows0 == [i \in 0..(MAX_ROWS - 1) |-> <<>>]

isSpace(c) == c \in {" ", CR, LF}

RECURSIVE trim(_)
trim(s) ==
  IF s = <<>> THEN s
  ELSE IF isSpace(Head(s)) THEN trim(Tail(s))
  ELSE IF isSpace(s[Len(s)]) THEN trim(SubSeq(s, 1, Len(s) - 1))
  ELSE s

nonEmpty(line) == Len(line) > 0

trimAll(lines) == [k \in 1..Len(lines) |-> trim(lines[k])]

\* readFile: trimmed non-empty lines fill the array from slot 0; lines past
\* arrayLength are dropped.
readFile(lines, arrayLength) ==
  LET kept == SelectSeq(trimAll(lines), nonEmpty) IN
  [i \in 0..(arrayLength - 1) |-> IF i + 1 <= Len(kept) THEN kept[i + 1] ELSE <<>>]

\* The rewrite of the whole file from the array: one line per non-empty slot.
saveAll(rows) ==
  SelectSeq([k \in 1..MAX_ROWS |-> rows[k - 1]], nonEmpty)

firstEmpty(rows) ==
  IF \E i \in 0..(MAX_ROWS - 1) : rows[i] = <<>>
    THEN CHOOSE i \in 0..(MAX_ROWS - 1) :
           rows[i] = <<>> /\ \A j \in 0..(i - 1) : rows[j] # <<>>
    ELSE -1

idMatches(row, id) ==
  /\ Len(row) > 0
  /\ indexOf(row, Pipe) # -1
  /\ substring(row, 0, indexOf(row, Pipe)) = id

\* find_by_id: the first non-empty row whose id-field equals id, -1 if none.
findById(rows, id) ==
  IF \E i \in 0..(MAX_ROWS - 1) : idMatches(rows[i], id)
    THEN CHOOSE i \in 0..(MAX_ROWS - 1) :
           idMatches(rows[i], id) /\ \A j \in 0..(i - 1) : ~idMatches(rows[j], id)
    ELSE -1

makeLine(id, nama, unit, enable) ==
  id \o <<Pipe>> \o nama \o <<Pipe>> \o unit \o <<Pipe>> \o enable

\* writeData taking the last slot when no slot is empty.
writeDataOverLast(st, id, nama, unit, enable) ==
  LET slot == IF firstEmpty(st.rows) = -1 THEN MAX_ROWS - 1
              ELSE firstEmpty(st.rows)
      line == makeLine(id, nama, unit, enable) IN
  [rows |-> [st.rows EXCEPT ![slot] = line], file |-> Append(st.file, line)]

\* A store is [rows |-> the array, file |-> the lines of /data.txt].
writeData(st, id, nama, unit, enable) ==
  LET slot == firstEmpty(st.rows)
      line == makeLine(id, nama, unit, enable) IN
  IF slot = -1 THEN st
  ELSE [rows |-> [st.rows EXCEPT ![slot] = line], file |-> Append(st.file, line)]

flipEnable(row) ==
  LET p == lastIndexOf(row, Pipe)
      enable == substringFrom(row, p + 1) IN
  substring(row, 0, p + 1) \o (IF enable = <<"1">> THEN <<"0">> ELSE <<"1">>)

toggleEnable(st, targetId) ==
  LET i == findById(st.rows, targetId) IN
  IF i = -1 THEN st
  ELSE LET rows == [st.rows EXCEPT ![i] = flipEnable(st.rows[i])] IN
       [rows |-> rows, file |-> saveAll(rows)]

deleteRowById(st, targetId) ==
  LET i == findById(st.rows, targetId) IN
  IF i = -1 THEN st
  ELSE LET rows == [st.rows EXCEPT ![i] = <<>>] IN
       [rows |-> rows, file |-> saveAll(rows)]

eraseAllData(st) == [rows |-> Rows0, file |-> <<>>]

-----------------------------------------------------------------------------
(* Request routing.  handleRequest is only declared in the sketch (line    *)
(* 41).  A request of the model is one line, an operation byte followed by *)
(* an id and, after "&", an enable flag; they stand for the path and the   *)
(* query parameters the router extracts (section 4.3): "a" add, "t"        *)
(* toggle, "d" delete, "e" erase; anything else only renders a page.       *)

Amp == "&"

\* The first line of the request.
reqLine(request) ==
  IF indexOf(request, CR) = -1 THEN request
  ELSE substring(request, 0, indexOf(request, CR))

reqOp(request) == IF Len(reqLine(request)) >= 1 THEN reqLine(request)[1] ELSE ""

reqId(request) ==
  LET line == reqLine(request) IN
  IF indexOf(line, Amp) = -1 THEN substringFrom(line, 1)
  ELSE substring(line, 1, indexOf(line, Amp))

reqEnable(request) ==
  LET line == reqLine(request) IN
  IF indexOf(line, Amp) = -1 THEN <<>>
  ELSE substringFrom(line, indexOf(line, Amp) + 1)

handleRequest(st, request) ==
  CASE reqOp(request) = "a" ->
         writeData(st, reqId(request), <<"n">>, <<"u">>, reqEnable(request))
    [] reqOp(request) = "t" -> toggleEnable(st, reqId(request))
    [] reqOp(request) = "d" -> deleteRowById(st, reqId(request))
    [] reqOp(request) = "e" -> eraseAllData(st)
    [] OTHER -> st

-----------------------------------------------------------------------------
(* Card identifiers.  ConvertByteToString is only declared in the sketch   *)
(* (line 47); per section 4.4 it writes each byte as two uppercase hex     *)
(* digits.                                                                 *)

HexDigits == <<"0", "1", "2", "3", "4", "5", "6", "7",
               "8", "9", "A", "B", "C", "D", "E", "F">>

hexByte(b) == <<HexDigits[(b \div 16) + 1], HexDigits[(b % 16) + 1]>>

RECURSIVE ConvertByteToString(_)
ConvertByteToString(uid) ==
  IF uid = <<>> THEN <<>> ELSE hexByte(Head(uid)) \o ConvertByteToString(Tail(uid))

-----------------------------------------------------------------------------
(* Inputs of the model *)

NoCard == <<>>
\* Raw uid presented to the reader (bytes 0x0A 0x1B).
Cards == {<<10, 27>>}

idCard == <<"0", "A", "1", "B">>
idOther == <<"F", "F">>
rec(id, enable) == makeLine(id, <<"n">>, <<"u">>, enable)

\* Contents of /data.txt found at boot: empty; one enabled record; a
\* disabled and an enabled record of the same id around a blank line, the
\* second with trailing blanks, followed by one more record.
InitialFiles ==
  { <<>>,
    <<rec(idCard, <<"1">>)>>,
    <<rec(idCard, <<"0">>), <<" ">>, rec(idCard, <<"1">>) \o <<" ", CR>>,
      rec(idOther, <<"1">>)>> }

Filler == [k \in 1..FillerLen |-> "x"]
req(op, id, enable) == <<op>> \o id \o <<Amp>> \o enable \o Terminator

\* What a client sends over one connection, as the chunks in which it
\* arrives: nothing; an oversized request without and with a terminator; a
\* page request whose terminator arrives in two parts; an add followed in
\* the same chunk by a delete; a toggle with a byte after its terminator.
Scripts ==
  { <<>>,
    <<Filler>>,
    <<Filler, Terminator>>,
    <<<<"g", CR, LF>>, <<CR, LF>>>>,
    <<req("a", idCard, <<"1">>) \o <<"d">> \o idCard \o Terminator>>,
    <<<<"t">> \o idCard, Terminator \o <<"x">>>> }

\* Rows and ids on which checkCardAccess is evaluated in SpecAccess.
AccessIds == {<<>>, idCard, idOther}
Flags == {<<"1">>, <<"0">>, <<>>, <<"1", "1">>}
RowSet ==
  {<<>>, idCard}
    \cup {id \o <<Pipe>> \o f : id \in AccessIds, f \in Flags}
    \cup {rec(id, f) : id \in AccessIds, f \in Flags}

-----------------------------------------------------------------------------
(* State *)

VARIABLES
  pc,              \* position: "boot", "halted", "loop", "recv", "timeout",
                   \* "poll", "pulse"; "access"/"evaluated" in SpecAccess
  initFail,        \* outcome of setup: "none", "pn532", "spiffs"
  serverBegun,     \* server.begin() was called
  now,             \* millis()
  lastClientCheck, \* line 37
  client,          \* line 36: "none" (no socket), "connected", or "dropped"
                   \* (its peer has closed the connection)
  backlog,         \* clients connected to the server and not yet taken
  orphans,         \* connections taken from the server, still established,
                   \* to which client no longer refers
  tosend,          \* chunks the client last taken has still to send
  inbox,           \* bytes received from the client and not yet read
  currentRequest,  \* line 35
  fileRows,        \* line 9
  dataFile,        \* lines of /data.txt
  card,            \* uid at the reader, NoCard for none
  String_ID,       \* line 20
  output,          \* level of OUTPUT_PIN
  granted,         \* result of the last checkCardAccess call
  handled,         \* calls of handleRequest for the connection last taken
  acceptTime,      \* millis() when the connection was taken, -1 with none
  pollFresh,       \* the reader was polled and millis() has not advanced since
  consumed,        \* bytes read from the connection last taken
  leftover,        \* currentRequest held bytes when that connection was
                   \* taken, and no read of it has ended without a dispatch
  lastOp,          \* SpecStore: the operation last applied to the store
  prevRows,        \* SpecStore: fileRows before that operation
  prevFile         \* SpecStore: dataFile before that operation

vars == <<pc, initFail, serverBegun, now, lastClientCheck, client, backlog,
          orphans, tosend, inbox, currentRequest, fileRows, dataFile, card,
          String_ID, output, granted, handled, acceptTime, pollFresh,
          consumed, leftover, lastOp, prevRows, prevFile>>

\* What only SpecStore changes.
storeTrace == <<lastOp, prevRows, prevFile>>

\* What only the reading of a connection changes.
readTrace == <<consumed, leftover>>

\* client && client.connected()
clientConnected == client = "connected"

\* Connections taken from the server and still established.
established == orphans + (IF clientConnected THEN 1 ELSE 0)

Init ==
  /\ pc = "boot"
  /\ initFail = "none"
  /\ serverBegun = FALSE
  /\ now = 0
  /\ lastClientCheck = 0
  /\ client = "none"
  /\ backlog = 0
  /\ orphans = 0
  /\ tosend = <<>>
  /\ inbox = <<>>
  /\ currentRequest = <<>>
  /\ fileRows = Rows0
  /\ dataFile \in InitialFiles
  /\ card = NoCard
  /\ String_ID = <<>>
  /\ output = LOW
  /\ granted = FALSE
  /\ handled = 0
  /\ acceptTime = -1
  /\ pollFresh = FALSE
  /\ consumed = <<>>
  /\ leftover = FALSE
  /\ lastOp = <<>>
  /\ prevRows = Rows0
  /\ prevFile = <<>>

-----------------------------------------------------------------------------
(* setup() *)

\* Lines 56-102.  pn532 is whether getFirmwareVersion() answers, mounted
\* whether SPIFFS.begin(true) succeeds.
SetupWith(pn532, mounted) ==
  /\ pc = "boot"
  /\ output' = LOW
  /\ IF ~pn532
       THEN \* line 69: while (1)
            /\ pc' = "halted"
            /\ initFail' = "pn532"
            /\ UNCHANGED <<serverBegun, now, fileRows>>
       ELSE IF ~mounted
         THEN \* line 83: return; the core then calls loop()
              /\ pc' = "loop"
              /\ initFail' = "spiffs"
              /\ UNCHANGED <<serverBegun, now, fileRows>>
         ELSE /\ pc' = "loop"
              /\ initFail' = "none"
              /\ now' = now + SetupDelay
              /\ serverBegun' = TRUE
              /\ fileRows' = readFile(dataFile, MAX_ROWS)
  /\ UNCHANGED <<lastClientCheck, client, backlog, orphans, tosend, inbox,
                 currentRequest, dataFile, card, String_ID, granted, handled,
                 acceptTime, pollFresh>>
  /\ UNCHANGED <<readTrace, storeTrace>>

Setup == \E pn532 \in BOOLEAN, mounted \in BOOLEAN : SetupWith(pn532, mounted)

-----------------------------------------------------------------------------
(* loop() *)

\* noClient testing available() where line 107 tests connected(): a silent
\* client counts as gone.
noClientWhenSilent == ~clientConnected \/ inbox = <<>>

\* Line 107: whether loop() takes the branch that asks the server for a client.
noClient == ~clientConnected

\* return left out: loop() goes on with the statement at next.
returnLeftOut(next) == next

\* Lines 111 and 123: return ends this call of loop(); the statement at next
\* is not reached and the next call starts at the top.
afterReturn(next) == "loop"

\* The assignment of line 109 left out: the request keeps what it held.
resetLeftOut(r) == r

\* Line 109: currentRequest = "".
reset(r) == <<>>

\* Lines 107-112: with no connected client, take what server.available()
\* offers, reset the request and the clock, and return.  Otherwise go on to
\* read the client.  Assigning to client drops its reference to the
\* connection it held.
LoopTop ==
  /\ pc = "loop"
  /\ IF noClient
       THEN /\ IF serverBegun /\ backlog > 0
                 THEN /\ client' = "connected"
                      /\ backlog' = backlog - 1
                      /\ \E s \in Scripts : tosend' = s
                      /\ acceptTime' = now
                      /\ handled' = 0
                      /\ leftover' = (currentRequest # <<>>)
                 ELSE /\ client' = "none"
                      /\ tosend' = <<>>
                      /\ acceptTime' = -1
                      /\ leftover' = FALSE
                      /\ UNCHANGED <<backlog, handled>>
            /\ orphans' = orphans + (IF clientConnected THEN 1 ELSE 0)
            /\ inbox' = <<>>
            /\ consumed' = <<>>
            /\ currentRequest' = reset(currentRequest)
            /\ lastClientCheck' = now
            /\ pc' = afterReturn("recv")
       ELSE /\ pc' = "recv"
            /\ UNCHANGED <<client, backlog, orphans, tosend, acceptTime,
                           handled, inbox, currentRequest, lastClientCheck,
                           readTrace>>
  /\ UNCHANGED <<initFail, serverBegun, now, fileRows, dataFile, card,
                 String_ID, output, granted, pollFresh>>
  /\ UNCHANGED storeTrace

\* The while loop of lines 115-125 on the bytes inb, starting from request r:
\* the request read, the bytes left unread, and whether the terminator ended
\* it.  The loop stops at the first byte after which the request ends with
\* the terminator; with no such byte it reads all of inb.  byteAt is the
\* n-th byte of r followed by inb, endsAt whether the terminator ends at it.
byteAt(r, inb, n) == IF n <= Len(r) THEN r[n] ELSE inb[n - Len(r)]

endsAt(r, inb, n) ==
  /\ n >= Len(Terminator)
  /\ \A j \in 1..Len(Terminator) :
       byteAt(r, inb, n - Len(Terminator) + j) = Terminator[j]

\* readLoop testing for the terminator once, after the last available byte.
readLoopTestedAfter(r, inb) ==
  [request |-> r \o inb, rest |-> <<>>,
   done |-> endsAt(r, inb, Len(r) + Len(inb))]

readLoop(r, inb) ==
  LET hits == {k \in 1..Len(inb) : endsAt(r, inb, Len(r) + k)} IN
  IF hits = {}
    THEN [request |-> r \o inb, rest |-> <<>>, done |-> FALSE]
    ELSE LET k == CHOOSE h \in hits : \A g \in hits : h <= g IN
         [request |-> r \o SubSeq(inb, 1, k),
          rest |-> SubSeq(inb, k + 1, Len(inb)),
          done |-> TRUE]

\* stop left out: the client object keeps its socket.
stopLeftOut(c) == c

\* client.stop(): the client object no longer refers to a socket.
stop(c) == "none"

\* Recv with the test of line 128 made before the read loop: once the
\* timeout has elapsed nothing is read.
RecvAfterTimeout ==
  /\ pc = "recv"
  /\ \E r \in {IF now - lastClientCheck > clientTimeout
                 THEN [request |-> currentRequest, rest |-> inbox, done |-> FALSE]
                 ELSE readLoop(currentRequest, inbox)} :
     /\ currentRequest' = r.request
     /\ inbox' = r.rest
     /\ consumed' = consumed \o SubSeq(inbox, 1, Len(inbox) - Len(r.rest))
     /\ IF r.done
          THEN \E st \in {handleRequest([rows |-> fileRows, file |-> dataFile],
                                        r.request)} :
               /\ fileRows' = st.rows
               /\ dataFile' = st.file
               /\ handled' = handled + 1
               /\ client' = stop(client)
               /\ acceptTime' = -1
               /\ pc' = afterReturn("timeout")
               /\ UNCHANGED leftover
          ELSE /\ pc' = "timeout"
               /\ leftover' = FALSE
               /\ UNCHANGED <<fileRows, dataFile, handled, client, acceptTime>>
  /\ UNCHANGED <<initFail, serverBegun, now, lastClientCheck, backlog, orphans,
                 tosend, card, String_ID, output, granted, pollFresh>>
  /\ UNCHANGED storeTrace

\* Lines 115-125.  After client.stop() the bytes left unread stay unread.
Recv ==
  /\ pc = "recv"
  /\ \E r \in {readLoop(currentRequest, inbox)} :
     /\ currentRequest' = r.request
     /\ inbox' = r.rest
     /\ consumed' = consumed \o SubSeq(inbox, 1, Len(inbox) - Len(r.rest))
     /\ IF r.done
          THEN \E st \in {handleRequest([rows |-> fileRows, file |-> dataFile],
                                        r.request)} :
               /\ fileRows' = st.rows
               /\ dataFile' = st.file
               /\ handled' = handled + 1
               /\ client' = stop(client)
               /\ acceptTime' = -1
               /\ pc' = afterReturn("timeout")
               /\ UNCHANGED leftover
          ELSE /\ pc' = "timeout"
               /\ leftover' = FALSE
               /\ UNCHANGED <<fileRows, dataFile, handled, client, acceptTime>>
  /\ UNCHANGED <<initFail, serverBegun, now, lastClientCheck, backlog, orphans,
                 tosend, card, String_ID, output, granted, pollFresh>>
  /\ UNCHANGED storeTrace

\* timedOut with >= for >.
timedOutAtLimit(t, last) == t - last >= clientTimeout

\* Line 128: the condition of the timeout.
timedOut(t, last) == t - last > clientTimeout

\* Lines 127-131.
TimeoutCheck ==
  /\ pc = "timeout"
  /\ IF timedOut(now, lastClientCheck)
       THEN /\ client' = stop(client)
            /\ acceptTime' = -1
       ELSE UNCHANGED <<client, acceptTime>>
  /\ pc' = "poll"
  /\ UNCHANGED <<initFail, serverBegun, now, lastClientCheck, backlog, orphans,
                 tosend, inbox, currentRequest, fileRows, dataFile, card, String_ID,
                 output, granted, handled, pollFresh>>
  /\ UNCHANGED <<readTrace, storeTrace>>

\* Poll storing the scanned id in the record array (fileRows[0] for
\* String_ID).
PollStoresId ==
  /\ pc = "poll"
  /\ pollFresh' = TRUE
  /\ IF card # NoCard
       THEN LET id == ConvertByteToString(card)
                ok == checkCardAccess(fileRows, id) IN
            /\ String_ID' = id
            /\ fileRows' = [fileRows EXCEPT ![0] = id]
            /\ granted' = ok
            /\ IF ok
                 THEN /\ now <= MaxTime
                      /\ output' = HIGH
                      /\ pc' = "pulse"
                 ELSE /\ pc' = "loop"
                      /\ UNCHANGED output
       ELSE /\ pc' = "loop"
            /\ UNCHANGED <<String_ID, fileRows, granted, output>>
  /\ UNCHANGED <<initFail, serverBegun, now, lastClientCheck, client, backlog,
                 orphans, tosend, inbox, currentRequest, dataFile, card,
                 handled, acceptTime>>
  /\ UNCHANGED <<readTrace, storeTrace>>

\* Lines 133-155 up to the delay: the poll, the conversion, the decision,
\* and on a grant the rising edge of the pulse.  The reader answers at once,
\* with the uid at it or with nothing (section 6, card_reader.poll).  A
\* pulse is started only while millis() has not passed MaxTime, so that
\* millis() stays within MaxTime + PulseHold.
Poll ==
  /\ pc = "poll"
  /\ pollFresh' = TRUE
  /\ IF card # NoCard
       THEN LET id == ConvertByteToString(card)
                ok == checkCardAccess(fileRows, id) IN
            /\ String_ID' = id
            /\ granted' = ok
            /\ IF ok
                 THEN /\ now <= MaxTime
                      /\ output' = HIGH
                      /\ pc' = "pulse"
                 ELSE /\ pc' = "loop"
                      /\ UNCHANGED output
       ELSE /\ pc' = "loop"
            /\ UNCHANGED <<String_ID, granted, output>>
  /\ UNCHANGED <<initFail, serverBegun, now, lastClientCheck, client, backlog,
                 orphans, tosend, inbox, currentRequest, fileRows, dataFile,
                 card, handled, acceptTime>>
  /\ UNCHANGED <<readTrace, storeTrace>>

\* PulseEnd without line 150: the output is left HIGH.
PulseEndNoClear ==
  /\ pc = "pulse"
  /\ now' = now + PulseHold
  /\ pollFresh' = FALSE
  /\ pc' = "loop"
  /\ UNCHANGED <<initFail, serverBegun, lastClientCheck, client, backlog,
                 orphans, tosend, inbox, currentRequest, fileRows, dataFile,
                 card, String_ID, output, granted, handled, acceptTime>>
  /\ UNCHANGED <<readTrace, storeTrace>>

\* Lines 149-151: delay(1000), then the falling edge.
PulseEnd ==
  /\ pc = "pulse"
  /\ now' = now + PulseHold
  /\ pollFresh' = FALSE
  /\ output' = LOW
  /\ pc' = "loop"
  /\ UNCHANGED <<initFail, serverBegun, lastClientCheck, client, backlog,
                 orphans, tosend, inbox, currentRequest, fileRows, dataFile,
                 card, String_ID, granted, handled, acceptTime>>
  /\ UNCHANGED <<readTrace, storeTrace>>

-----------------------------------------------------------------------------
(* Environment *)

\* A client connects and waits in the listen backlog.
Connect ==
  /\ pc # "boot"
  /\ backlog < MaxBacklog
  /\ backlog' = backlog + 1
  /\ UNCHANGED <<pc, initFail, serverBegun, now, lastClientCheck, client,
                 orphans, tosend, inbox, currentRequest, fileRows, dataFile,
                 card, String_ID, output, granted, handled, acceptTime,
                 pollFresh>>
  /\ UNCHANGED <<readTrace, storeTrace>>

\* The next chunk of the connected client arrives.
Deliver ==
  /\ clientConnected
  /\ tosend # <<>>
  /\ inbox' = inbox \o Head(tosend)
  /\ tosend' = Tail(tosend)
  /\ UNCHANGED <<pc, initFail, serverBegun, now, lastClientCheck, client,
                 backlog, orphans, currentRequest, fileRows, dataFile, card,
                 String_ID, output, granted, handled, acceptTime, pollFresh>>
  /\ UNCHANGED <<readTrace, storeTrace>>

\* The connected client closes the connection; connected() turns false once
\* the bytes received before that have been read.
Disconnect ==
  /\ clientConnected
  /\ inbox = <<>>
  /\ client' = "dropped"
  /\ tosend' = <<>>
  /\ UNCHANGED <<pc, initFail, serverBegun, now, lastClientCheck, backlog,
                 orphans, inbox, currentRequest, fileRows, dataFile, card, String_ID,
                 output, granted, handled, acceptTime, pollFresh>>
  /\ UNCHANGED <<readTrace, storeTrace>>

\* millis() advances.
Tick ==
  /\ pc \notin {"boot", "pulse"}
  /\ now + TimeStep <= MaxTime
  /\ now' = now + TimeStep
  /\ pollFresh' = FALSE
  /\ UNCHANGED <<pc, initFail, serverBegun, lastClientCheck, client, backlog,
                 orphans, tosend, inbox, currentRequest, fileRows, dataFile,
                 card, String_ID, output, granted, handled, acceptTime>>
  /\ UNCHANGED <<readTrace, storeTrace>>

\* A card is put to the reader, or taken away.
CardChange ==
  /\ pc # "boot"
  /\ \E u \in Cards \cup {NoCard} :
       /\ u # card
       /\ card' = u
  /\ UNCHANGED <<pc, initFail, serverBegun, now, lastClientCheck, client,
                 backlog, orphans, tosend, inbox, currentRequest, fileRows,
                 dataFile, String_ID, output, granted, handled, acceptTime,
                 pollFresh>>
  /\ UNCHANGED <<readTrace, storeTrace>>

Program == Setup \/ LoopTop \/ Recv \/ TimeoutCheck \/ Poll \/ PulseEnd

Environment == Connect \/ Deliver \/ Disconnect \/ Tick \/ CardChange

Next == Program \/ Environment

Spec == Init /\ [][Next]_vars

\* loop() is called again and again by the Arduino core.
FairSpec == Spec /\ WF_vars(Program)

\* The read loop is left: a step from "recv" to the position after it.  Under
\* Spec only Recv takes such a step, and Recv is enabled whenever pc = "recv".
RecvStep == pc = "recv" /\ pc' \in {"loop", "timeout"}

\* loop() is called again and again and each of its statements completes, and
\* millis() keeps advancing while it is within MaxTime.  The fairness of Recv
\* is stated on RecvStep.
FairTimeSpec ==
  /\ Spec
  /\ WF_vars(Setup \/ LoopTop \/ TimeoutCheck \/ Poll \/ PulseEnd)
  /\ WF_pc(RecvStep)
  /\ WF_vars(Tick)

-----------------------------------------------------------------------------
(* checkCardAccess on its own: any array over RowSet, any id of AccessIds. *)

InitAccess ==
  /\ pc = "access"
  /\ initFail = "none"
  /\ serverBegun = FALSE
  /\ now = 0
  /\ lastClientCheck = 0
  /\ client = "none"
  /\ backlog = 0
  /\ orphans = 0
  /\ tosend = <<>>
  /\ inbox = <<>>
  /\ currentRequest = <<>>
  /\ fileRows \in [0..(MAX_ROWS - 1) -> RowSet]
  /\ dataFile = <<>>
  /\ card = NoCard
  /\ String_ID \in AccessIds
  /\ output = LOW
  /\ granted = FALSE
  /\ handled = 0
  /\ acceptTime = -1
  /\ pollFresh = FALSE
  /\ consumed = <<>>
  /\ leftover = FALSE
  /\ lastOp = <<>>
  /\ prevRows = Rows0
  /\ prevFile = <<>>

Evaluate ==
  /\ pc = "access"
  /\ granted' = checkCardAccess(fileRows, String_ID)
  /\ pc' = "evaluated"
  /\ UNCHANGED <<initFail, serverBegun, now, lastClientCheck, client, backlog,
                 orphans, tosend, inbox, currentRequest, fileRows, dataFile,
                 card, String_ID, output, handled, acceptTime, pollFresh>>
  /\ UNCHANGED <<readTrace, storeTrace>>

NextAccess == Evaluate

SpecAccess == InitAccess /\ [][NextAccess]_vars

-----------------------------------------------------------------------------
(* The record store on its own: the store loaded from a file of            *)
(* InitialFiles, then any sequence of adds, toggles, deletes and erases.   *)

StoreIds == {idCard, idOther}
StoreNames == {<<"n">>, <<"m">>}
StoreUnits == {<<"u">>}
StoreEnables == {<<"1">>, <<"0">>}

InitStore ==
  /\ pc = "store"
  /\ initFail = "none"
  /\ serverBegun = FALSE
  /\ now = 0
  /\ lastClientCheck = 0
  /\ client = "none"
  /\ backlog = 0
  /\ orphans = 0
  /\ tosend = <<>>
  /\ inbox = <<>>
  /\ currentRequest = <<>>
  /\ dataFile \in InitialFiles
  /\ fileRows = readFile(dataFile, MAX_ROWS)
  /\ card = NoCard
  /\ String_ID = <<>>
  /\ output = LOW
  /\ granted = FALSE
  /\ handled = 0
  /\ acceptTime = -1
  /\ pollFresh = FALSE
  /\ consumed = <<>>
  /\ leftover = FALSE
  /\ lastOp = <<"load">>
  /\ prevRows = Rows0
  /\ prevFile = dataFile

\* The store becomes st after the operation op; the scan decision for the
\* id of the operation is taken on the new array.
StoreStep(op, st) ==
  /\ pc = "store"
  /\ fileRows' = st.rows
  /\ dataFile' = st.file
  /\ lastOp' = op
  /\ prevRows' = fileRows
  /\ prevFile' = dataFile
  /\ String_ID' = (IF Len(op) >= 2 THEN op[2] ELSE <<>>)
  /\ granted' = (IF Len(op) >= 2 THEN checkCardAccess(st.rows, op[2]) ELSE FALSE)
  /\ UNCHANGED <<pc, initFail, serverBegun, now, lastClientCheck, client,
                 backlog, orphans, tosend, inbox, currentRequest, card, output,
                 handled, acceptTime, pollFresh, readTrace>>

Store == [rows |-> fileRows, file |-> dataFile]

StoreAdd ==
  \E id \in StoreIds, nama \in StoreNames, unit \in StoreUnits,
     enable \in StoreEnables :
    StoreStep(<<"add", id, nama, unit, enable>>,
              writeData(Store, id, nama, unit, enable))

StoreToggle ==
  \E id \in StoreIds : StoreStep(<<"toggle", id>>, toggleEnable(Store, id))

StoreDelete ==
  \E id \in StoreIds : StoreStep(<<"delete", id>>, deleteRowById(Store, id))

StoreErase == StoreStep(<<"erase">>, eraseAllData(Store))

NextStore == StoreAdd \/ StoreToggle \/ StoreDelete \/ StoreErase

SpecStore == InitStore /\ [][NextStore]_vars

-----------------------------------------------------------------------------
(* Properties *)

RowIndex == 0..(MAX_ROWS - 1)

\* The row has an id-field, the characters before its first '|', equal to id.
hasId(row, id) ==
  \E k \in 1..Len(row) :
    /\ row[k] = Pipe
    /\ \A j \in 1..(k - 1) : row[j] # Pipe
    /\ SubSeq(row, 1, k - 1) = id

\* The row's enabled field, the characters after its last '|', is "1".
isEnabled(row) ==
  \E k \in 1..Len(row) :
    /\ row[k] = Pipe
    /\ \A j \in (k + 1)..Len(row) : row[j] # Pipe
    /\ SubSeq(row, k + 1, Len(row)) = <<"1">>

matching(id) == {i \in RowIndex : hasId(fileRows[i], id)}

firstMatching(id) == CHOOSE i \in matching(id) : \A j \in matching(id) : i <= j

\* C1: checkCardAccess returns true only when some record with the card's id
\* has enabled field "1"; it returns false when no record has the id, and
\* when the matching record (the first one, which the lookup finds) has an
\* enabled field other than "1".
C1_AccessDecision ==
  pc = "evaluated" =>
    /\ granted => \E i \in matching(String_ID) : isEnabled(fileRows[i])
    /\ matching(String_ID) = {} => ~granted
    /\ (matching(String_ID) # {} /\ ~isEnabled(fileRows[firstMatching(String_ID)]))
         => ~granted

\* An id found twice, disabled first and enabled after, has been denied.
C1_Witness ==
  /\ pc = "evaluated"
  /\ ~granted
  /\ \E i \in matching(String_ID) : isEnabled(fileRows[i])

\* C2: the request buffer never holds more than the capacity; an oversized
\* request is never handed to the handler.
C2_BufferBounded == Len(currentRequest) <= RequestCapacity

\* C3: at most one connection taken from the server is established at any
\* time, and a connection is taken from the server only at the top of a loop
\* iteration in which client is not a connected client.
C3_OneClient ==
  /\ [](established <= 1)
  /\ [][backlog' < backlog => (pc = "loop" /\ ~clientConnected)]_vars

\* A second client waits in the backlog while loop() goes on to read the
\* first.
C3_Witness == pc = "recv" /\ clientConnected /\ backlog > 0

\* C4: the handler is called at most once per connection, the call closes the
\* connection in the same step, and nothing is read after it: the request
\* stays as handed over until the next loop() resets it, and the bytes that
\* followed the terminator stay unread.
C4_OneRequestPerConnection ==
  /\ [](handled <= 1 /\ (handled = 1 => client = "none"))
  /\ [][/\ handled' > handled =>
             (client' = "none" /\ pc' = "loop"
                /\ endsWith(currentRequest', Terminator))
        /\ client = "none" =>
             (currentRequest' = currentRequest \/ currentRequest' = <<>>)]_vars

\* A request was served and the byte that followed its terminator is unread.
C4_Witness == handled = 1 /\ client = "none" /\ inbox # <<>>

\* C5 as stated: the clock of a connected client is never restarted, and once
\* the time since acceptance exceeds the timeout the handler is not called
\* for the connection.
C5_TimeoutFromAccept_AsStated ==
  [][/\ (clientConnected /\ client' = client) => lastClientCheck' = lastClientCheck
     /\ (clientConnected /\ now - acceptTime > clientTimeout) => handled' = handled]_vars

\* C5 amended: the clock of a connected client is the time of acceptance and
\* is never restarted; the timeout check (reached when a loop iteration has
\* read all available bytes without completing a terminator) closes the
\* connection exactly when the time since acceptance exceeds the timeout,
\* and the handler is not called for a connection so closed.
C5_TimeoutFromAccept ==
  /\ [](clientConnected => lastClientCheck = acceptTime)
  /\ [][/\ (clientConnected /\ client' = client) => lastClientCheck' = lastClientCheck
        /\ (pc = "timeout" /\ pc' = "poll" /\ clientConnected) =>
             /\ client' = "none" <=> now - acceptTime > clientTimeout
             /\ handled' = 0
        /\ client = "none" => handled' <= handled]_vars

\* A client with bytes still to send was closed by the timeout check with a
\* partial request in the buffer.
C5_Witness ==
  /\ pc = "poll"
  /\ client = "none"
  /\ now - lastClientCheck > clientTimeout
  /\ currentRequest # <<>>
  /\ tosend # <<>>
  /\ handled = 0

\* C6: with loop() called again and again, a card that stays at the reader is
\* eventually polled, whatever the network state.
C6_CardEventuallyPolled ==
  []((pc \in {"loop", "recv", "timeout"} /\ initFail = "none" /\ card # NoCard)
       => <>(card = NoCard \/ pc = "poll"))

\* C7: the output is HIGH only between the grant of a scan and the end of its
\* pulse; it is LOW at the start and the end of every loop iteration, and a
\* denied scan leaves it alone.
C7_OutputPulse ==
  /\ pc \notin {"boot", "pulse"} => output = LOW
  /\ pc = "pulse" =>
       (output = HIGH /\ granted /\ checkCardAccess(fileRows, String_ID))

\* A granted scan is holding the output HIGH.
C7_Witness == pc = "pulse" /\ output = HIGH /\ String_ID = idCard

C9_ScanLeavesStore ==
  [][/\ pc \in {"poll", "pulse"} => (fileRows' = fileRows /\ dataFile' = dataFile)
     /\ fileRows' # fileRows => (pc = "boot" \/ (pc = "recv" /\ handled' > handled))]_vars

\* A card has just been scanned against a non-empty record array.
C9_Witness ==
  /\ pc = "loop"
  /\ pollFresh
  /\ String_ID = idCard
  /\ fileRows # Rows0

\* C10: two consecutive polls of the reader are separated by the scan
\* interval: millis() advances between them.
C10_PollInterval == [][(pc = "poll" /\ pc' # "poll") => ~pollFresh]_vars

\* What SpecStore records of the operation last applied.
lastIs(op) == lastOp[1] = op
opId == lastOp[2]
noEmptySlot(rows) == \A i \in RowIndex : rows[i] # <<>>

\* C11: the array has exactly MAX_ROWS slots whatever operations were
\* applied, and an add made when no slot is empty leaves the array and the
\* file as they were.
C11_AddToFullStore ==
  /\ DOMAIN fileRows = RowIndex
  /\ Cardinality({i \in RowIndex : fileRows[i] # <<>>}) <= MAX_ROWS
  /\ (lastIs("add") /\ noEmptySlot(prevRows)) =>
       (fileRows = prevRows /\ dataFile = prevFile)

\* An add was made to a store that earlier adds had filled.
C11_Witness ==
  /\ lastIs("add")
  /\ noEmptySlot(prevRows)
  /\ \E i \in RowIndex : prevRows[i] = makeLine(idOther, <<"m">>, <<"u">>, <<"0">>)

\* The line of the add last applied, and whether it was made enabled.
opLine == makeLine(lastOp[2], lastOp[3], lastOp[4], lastOp[5])
opEnabled == lastOp[5] = <<"1">>

\* The add last applied found an empty slot / found one that no record with
\* the same id preceded.
addedToFreeSlot == lastIs("add") /\ ~noEmptySlot(prevRows)
addedBeforeDuplicates ==
  /\ addedToFreeSlot
  /\ \A j \in 0..(firstEmpty(prevRows) - 1) : ~hasId(prevRows[j], opId)

\* The lookup of the id after the add returns the record added, and the scan
\* decision for the id is the enabled value added.
addFound ==
  /\ findById(fileRows, opId) # -1
  /\ fileRows[findById(fileRows, opId)] = opLine
  /\ granted = opEnabled

\* C12 as stated: after an add to any store with an empty slot the lookup of
\* the id returns the record added and the access check for the id equals
\* the enabled value added.
C12_AddThenLookup_AsStated == addedToFreeSlot => addFound

\* C12 amended: it is so when no record in a slot before the first empty one
\* has the id of the add.
C12_AddThenLookup == addedBeforeDuplicates => addFound

\* A record was added enabled in front of a disabled record of the same id,
\* and the id is granted.
C12_Witness ==
  /\ addedBeforeDuplicates
  /\ opEnabled
  /\ granted
  /\ \E j \in RowIndex :
       /\ j > firstEmpty(prevRows)
       /\ hasId(prevRows[j], opId)
       /\ ~isEnabled(prevRows[j])

\* The delete last applied found at most one record with its id.
deletedUnique ==
  /\ lastIs("delete")
  /\ Cardinality({i \in RowIndex : hasId(prevRows[i], opId)}) <= 1

\* After the delete the lookup of the id finds nothing and the access check
\* denies it; the slot of the first record that had the id is empty and
\* every other slot is as before.
deleteGone ==
  /\ findById(fileRows, opId) = -1
  /\ ~granted
  /\ \A i \in RowIndex :
       fileRows[i] = IF i = findById(prevRows, opId) THEN <<>> ELSE prevRows[i]

\* C13 as stated: after a delete on any store the id is absent and denied,
\* the slot is empty and every other record keeps its index and content.
C13_DeleteThenLookup_AsStated == lastIs("delete") => deleteGone

\* C13 amended: it is so when at most one record had the id.
C13_DeleteThenLookup == deletedUnique => deleteGone

\* The record in slot 0 was deleted and the record behind it is where it
\* was.
C13_Witness ==
  /\ deletedUnique
  /\ hasId(prevRows[0], opId)
  /\ fileRows[0] = <<>>
  /\ \E i \in RowIndex : i > 0 /\ fileRows[i] # <<>> /\ fileRows[i] = prevRows[i]

\* A step takes a connection from the server / calls the handler / polls the
\* reader.
accepts == client' = "connected" /\ client # "connected"
dispatches == handled' = handled + 1
polls == pc = "poll" /\ pc' # "poll"

\* C14: a loop iteration starts at "loop" and polls the reader only from
\* "poll", which it reaches only from the timeout check, which it reaches
\* only from a read loop that has read all available bytes; the step that
\* accepts a connection and the step that dispatches a request end the
\* iteration, so neither is followed by a poll within it.
C14_NetworkBeforeScan ==
  [][/\ (pc' = "poll" /\ pc # "poll") => pc = "timeout"
     /\ (pc' = "timeout" /\ pc # "timeout") => (pc = "recv" /\ inbox' = <<>>)
     /\ (pc' = "recv" /\ pc # "recv") => pc = "loop"
     /\ (pollFresh' /\ ~pollFresh) => polls
     /\ accepts => (pc = "loop" /\ pc' = "loop")
     /\ dispatches => (pc = "recv" /\ pc' = "loop")]_vars

\* The reader was polled at the end of an iteration that had read bytes of
\* the connected client and passed the timeout check.
C14_Witness ==
  /\ pc = "loop"
  /\ pollFresh
  /\ clientConnected
  /\ consumed # <<>>

\* C15: the step that accepts a connection empties the request, and the
\* request handed to the handler is the bytes read from the connection since
\* it was accepted.
C15_RequestOfThisConnection ==
  [][/\ accepts => (currentRequest' = <<>> /\ consumed' = <<>>)
     /\ dispatches => currentRequest' = consumed']_vars

\* A request was handed over on a connection accepted while the request
\* still held bytes of an earlier connection.
C15_Witness ==
  /\ handled = 1
  /\ leftover
  /\ currentRequest # <<>>
  /\ currentRequest = consumed

\* C16: when records carry the id of the card, the decision is the enabled
\* state of the one with the lowest index, whatever the later ones hold.
C16_FirstMatchDecides ==
  (pc = "evaluated" /\ matching(String_ID) # {}) =>
    granted = isEnabled(fileRows[firstMatching(String_ID)])

\* Two full records of one id, the first disabled and a later one enabled:
\* the card was denied.
C16_Witness ==
  /\ pc = "evaluated"
  /\ String_ID = idCard
  /\ ~granted
  /\ \E i, j \in RowIndex :
       /\ i < j
       /\ \A k \in 0..(i - 1) : ~hasId(fileRows[k], idCard)
       /\ fileRows[i] = rec(idCard, <<"0">>)
       /\ fileRows[j] = rec(idCard, <<"1">>)

\* The terminator ends at position n of s / occurs somewhere in s.
terminatorAt(s, n) ==
  /\ n >= Len(Terminator)
  /\ n <= Len(s)
  /\ SubSeq(s, n - Len(Terminator) + 1, n) = Terminator
hasTerminator(s) == \E n \in 1..Len(s) : terminatorAt(s, n)

\* C17: the request handed to the handler ends with the terminator and holds
\* no earlier occurrence of it, the bytes read end with that terminator and
\* those behind it stay unread; a read loop that ends without a dispatch
\* leaves no terminator in the request.
C17_DispatchAtTerminator ==
  [][/\ dispatches =>
          /\ terminatorAt(currentRequest', Len(currentRequest'))
          /\ \A n \in 1..(Len(currentRequest') - 1) :
               ~terminatorAt(currentRequest', n)
          /\ terminatorAt(consumed', Len(consumed'))
          /\ consumed' \o inbox' = consumed \o inbox
     /\ (pc = "recv" /\ pc' = "timeout") => ~hasTerminator(currentRequest')]_vars

\* The toggle request was handed over and the byte that arrived behind its
\* terminator is unread.
C17_Witness ==
  /\ handled = 1
  /\ currentRequest = <<"t">> \o idCard \o Terminator
  /\ inbox = <<"x">>

C19_DispatchBeforeTimeout ==
  [][/\ (pc = "recv" /\ pc' # "recv" /\ hasTerminator(currentRequest \o inbox))
          => (dispatches /\ pc' = "loop")
     /\ (pc' = "timeout" /\ pc # "timeout")
          => (pc = "recv" /\ inbox' = <<>> /\ ~hasTerminator(currentRequest')
                /\ ~dispatches)]_vars

\* A request was handed over when the timeout had elapsed.  millis() has
\* not advanced since the reader was last polled, which was before the
\* call, in an earlier iteration of the same connection.
C19_Witness ==
  /\ pc = "loop"
  /\ handled = 1
  /\ pollFresh
  /\ now - lastClientCheck > clientTimeout
====
